---- MODULE Spec2Model ----
(***************************************************************************)
(* The authoritative Tic-Tac-Toe match handler of game-backend-nakama      *)
(* (modules/src/match_handler.ts) as a state machine.                      *)
(*                                                                         *)
(* One match is modelled.  The Nakama runtime runs all handlers of one     *)
(* match on a single goroutine, so handlers never interleave; matchLoop is *)
(* stepped one message at a time (pc = "loop") and closed by its timeout   *)
(* check, and no other handler runs while a tick is in progress.           *)
(* A presence is identified by its userId (one session per user).          *)
(***************************************************************************)
EXTENDS Integers, Sequences, FiniteSets, TLC

\* ------------------------------------------------------------------ bounds
NumUsers == 3            \* users that may try to join the match in Spec
LobbyCells == 3          \* clients target the cells 0..LobbyCells-1 in Spec
NumCells == 5            \* clients target the cells 0..NumCells-1 in SpecTimed
MaxClockSteps == 3       \* the clock advances at most this many steps
MaxStreak == 3           \* stored streak values range over 0..MaxStreak
MaxMatches == 2          \* find_match creates at most this many matches
MaxPlayers == 101        \* players that may hold leaderboard records
MaxScore == 3            \* leaderboard scores range over 0..MaxScore

\* --------------------------------------------------------------- constants
TIMEOUT_MS == 30000
ListLimit == 100         \* the limit passed to nk.leaderboardRecordsList
TopRows == 10            \* the rows get_leaderboard returns at most
ClockStep == TIMEOUT_MS \div 2

Null == "null"
NoTimestamp == << >>                 \* turnStartTimestamp: null
Timestamp(t) == << t >>              \* turnStartTimestamp: a number

AllUserIds == << "u1", "u2", "u3", "u4", "u5" >>
Users == { AllUserIds[i] : i \in 1..NumUsers }
GameUsers == { AllUserIds[1], AllUserIds[2] }

GameMode == { "classic", "timed" }
Cells == 0..8
\* the positions clients send: n cells of the board and two values off it
Positions(n) == {-1} \cup (0..(n - 1)) \cup {9}
GamePositions == Positions(9)

LedgerOps == { "winsWrite", "lossesWrite", "storageRead", "storageWrite" }
FailureModes == SUBSET LedgerOps
NoFailure == { {} }

\* the clients that call find_match, and a caller that has not called yet
Callers == { "c1", "c2" }
NoCall == [ pc |-> "idle", mode |-> Null ]

VARIABLES
  board, currentTurn, players, status, winner, mode, createdAt,
  turnStartTimestamp,      \* the fields of GameState
  label,                   \* the match label, [open, mode]
  now,                     \* the value Date.now() returns
  admitted,                \* users accepted by matchJoinAttempt, not yet joined
  pc,                      \* "idle", or "loop" inside matchLoop's message loop
  log,                     \* what the last handler step logged about a
                           \* client message ("none" outside the loop)
  out,                     \* the messages the last handler step broadcast
  wins, losses, streaks,   \* the two leaderboards and the streak storage
  lbLog,                   \* the winner of every updateLeaderboard call so far
  lastMover,               \* the sender of the last applied move
  outcome,                 \* what checkWinner returned last, or "unset"
  accepted,                \* the number of moves applied so far
  tickTurn,                \* inside a tick: the player whose turn had run out
                           \* when the tick began, or Null
  registry,                \* the matches the server runs; a match id is an
                           \* index, an entry is [state, label, admitted]
  rpc,                     \* per caller: where its find_match call stands,
                           \* [pc, mode]; pc is "create" between the listing
                           \* and nk.matchCreate
  accounts                 \* the users that have an account

gsVars == << board, currentTurn, players, status, winner, mode, createdAt,
             turnStartTimestamp >>
ledgerVars == << wins, losses, streaks, lbLog >>
vars == << board, currentTurn, players, status, winner, mode, createdAt,
           turnStartTimestamp, label, now, admitted, pc, log, out,
           wins, losses, streaks, lbLog, lastMover, outcome, accepted,
           tickTurn, registry, rpc, accounts >>
registryVars == << registry, rpc, accounts >>

\* The GameState object and the ledgers, as values passed through the helpers.
GameState ==
  [ board |-> board, currentTurn |-> currentTurn, players |-> players,
    status |-> status, winner |-> winner, mode |-> mode,
    createdAt |-> createdAt, turnStartTimestamp |-> turnStartTimestamp ]

Ledger == [ wins |-> wins, losses |-> losses, streaks |-> streaks,
            lbLog |-> lbLog ]

\* ------------------------------------------------------- players as a map
\* state.players is a JS object with string keys: Object.keys lists the ids
\* in insertion order, an overwrite keeps the key's place, delete removes it.
PlayerIds(ps) == [ i \in 1..Len(ps) |-> ps[i].userId ]

IdSet(ps) == { ps[i].userId : i \in 1..Len(ps) }

IndexOf(ps, u) ==
  IF u \in IdSet(ps) THEN CHOOSE i \in 1..Len(ps) : ps[i].userId = u ELSE 0

Player(ps, u) == ps[IndexOf(ps, u)]

RemovePlayer(ps, u) == SelectSeq(ps, LAMBDA p : p.userId # u)

\* the id at the first of the indices hits in Object.keys order, or Null
FirstId(ps, hits) ==
  IF hits = {} THEN Null
  ELSE ps[CHOOSE i \in hits : \A j \in hits : i <= j].userId

\* every sequence without repetition over a nonempty subset of S
Batches(S) ==
  { b \in UNION { [1..n -> S] : n \in 1..Cardinality(S) } :
      \A i, j \in 1..Len(b) : i # j => b[i] # b[j] }

\* ------------------------------------------------------------ checkWinner
winningLines_NoColumns ==
  << <<0, 1, 2>>, <<3, 4, 5>>, <<6, 7, 8>>,
     <<0, 4, 8>>, <<2, 4, 6>> >>

winningLines_NoDiagonals ==
  << <<0, 1, 2>>, <<3, 4, 5>>, <<6, 7, 8>>,
     <<0, 3, 6>>, <<1, 4, 7>>, <<2, 5, 8>> >>

winningLines ==
  << <<0, 1, 2>>, <<3, 4, 5>>, <<6, 7, 8>>,
     <<0, 3, 6>>, <<1, 4, 7>>, <<2, 5, 8>>,
     <<0, 4, 8>>, <<2, 4, 6>> >>

RECURSIVE ScanLines(_, _)
ScanLines(b, i) ==
  IF i > Len(winningLines) THEN Null
  ELSE LET a == winningLines[i][1]
           bb == winningLines[i][2]
           c == winningLines[i][3]
       IN IF b[a] # Null /\ b[a] = b[bb] /\ b[a] = b[c]
          THEN b[a]
          ELSE ScanLines(b, i + 1)

checkWinner_DrawFirst(b) ==
  LET w == ScanLines(b, 1)
  IN IF \A j \in Cells : b[j] # Null THEN "draw"
     ELSE w

checkWinner(b) ==
  LET w == ScanLines(b, 1)
  IN IF w # Null THEN w
     ELSE IF \A j \in Cells : b[j] # Null THEN "draw"
     ELSE Null

\* ------------------------------------------------------- updateWinStreaks
NoRecord == << >>
Record(c, b) == << [ currentWinStreak |-> c, bestWinStreak |-> b ] >>

updateWinStreaks_KeepsBest(st, userId, result, fail) ==
  LET existingObjects == IF "storageRead" \in fail THEN NoRecord
                         ELSE st[userId]
      cur0 == IF Len(existingObjects) > 0
              THEN existingObjects[1].currentWinStreak ELSE 0
      best0 == IF Len(existingObjects) > 0
               THEN existingObjects[1].bestWinStreak ELSE 0
      cur1 == IF result = "win" THEN cur0 + 1 ELSE 0
  IN IF "storageWrite" \in fail THEN st
     ELSE [ st EXCEPT ![userId] = Record(cur1, best0) ]

updateWinStreaks_DrawKeepsStreak(st, userId, result, fail) ==
  LET existingObjects == IF "storageRead" \in fail THEN NoRecord
                         ELSE st[userId]
      cur0 == IF Len(existingObjects) > 0
              THEN existingObjects[1].currentWinStreak ELSE 0
      best0 == IF Len(existingObjects) > 0
               THEN existingObjects[1].bestWinStreak ELSE 0
      cur1 == IF result = "win" THEN cur0 + 1
              ELSE IF result = "draw" THEN cur0 ELSE 0
      best1 == IF result = "win" /\ cur1 > best0 THEN cur1 ELSE best0
  IN IF "storageWrite" \in fail THEN st
     ELSE [ st EXCEPT ![userId] = Record(cur1, best1) ]

updateWinStreaks(st, userId, result, fail) ==
  LET existingObjects == IF "storageRead" \in fail THEN NoRecord
                         ELSE st[userId]
      cur0 == IF Len(existingObjects) > 0
              THEN existingObjects[1].currentWinStreak ELSE 0
      best0 == IF Len(existingObjects) > 0
               THEN existingObjects[1].bestWinStreak ELSE 0
      cur1 == IF result = "win" THEN cur0 + 1 ELSE 0
      best1 == IF result = "win" /\ cur1 > best0 THEN cur1 ELSE best0
  IN IF "storageWrite" \in fail THEN st
     ELSE [ st EXCEPT ![userId] = Record(cur1, best1) ]

\* ------------------------------------------------------ updateLeaderboard
updateLeaderboard(s, L, fail) ==
  LET L0 == [ L EXCEPT !.lbLog = Append(@, s.winner) ]
      ids == PlayerIds(s.players)
  IN IF s.winner = Null THEN L0
     ELSE IF Len(ids) # 2 THEN L0
     ELSE IF s.winner = "draw"
     THEN [ L0 EXCEPT !.streaks =
              updateWinStreaks(
                updateWinStreaks(@, ids[1], "draw", fail),
                ids[2], "draw", fail) ]
     ELSE
       LET hasWinner == s.winner \in IdSet(s.players)
           w1 == IF hasWinner /\ "winsWrite" \notin fail
                 THEN [ L0.wins EXCEPT ![s.winner] = @ + 1 ] ELSE L0.wins
           s1 == IF hasWinner
                 THEN updateWinStreaks(L0.streaks, s.winner, "win", fail)
                 ELSE L0.streaks
           loser ==
             FirstId(s.players,
                     { i \in DOMAIN s.players :
                         s.players[i].userId # s.winner })
           l1 == IF loser # Null /\ "lossesWrite" \notin fail
                 THEN [ L0.losses EXCEPT ![loser] = @ + 1 ] ELSE L0.losses
           s2 == IF loser # Null
                 THEN updateWinStreaks(s1, loser, "loss", fail) ELSE s1
       IN [ L0 EXCEPT !.wins = w1, !.losses = l1, !.streaks = s2 ]

\* --------------------------------------------------------- broadcastState
StateUpdate(s) == [ opCode |-> "STATE_UPDATE", data |-> s ]

\* What a helper hands back: the state, the ledgers, what it broadcast,
\* what it logged.
Result(s, L, o, lg) == [ state |-> s, ledger |-> L, out |-> o, log |-> lg ]

\* ------------------------------------------------------------- handleMove
\* the four validations, in the order of the code; "ok" when all pass
validateMove_AnyCell(s, userId, position) ==
  IF s.status # "active" THEN "not_active"
  ELSE IF s.currentTurn # userId THEN "not_turn"
  ELSE IF position < 0 \/ position > 8 THEN "position"
  ELSE "ok"

validateMove_AnyTurn(s, userId, position) ==
  IF s.status # "active" THEN "not_active"
  ELSE IF position < 0 \/ position > 8 THEN "position"
  ELSE IF s.board[position] # Null THEN "occupied"
  ELSE "ok"

validateMove_AnyStatus(s, userId, position) ==
  IF s.currentTurn # userId THEN "not_turn"
  ELSE IF position < 0 \/ position > 8 THEN "position"
  ELSE IF s.board[position] # Null THEN "occupied"
  ELSE "ok"

validateMove(s, userId, position) ==
  IF s.status # "active" THEN "not_active"
  ELSE IF s.currentTurn # userId THEN "not_turn"
  ELSE IF position < 0 \/ position > 8 THEN "position"
  ELSE IF s.board[position] # Null THEN "occupied"
  ELSE "ok"

\* the game goes on: the turn passes to the first other player
switchTurn_KeepsTimer(s, userId, t) ==
  LET other ==
        FirstId(s.players,
                { i \in DOMAIN s.players : s.players[i].userId # userId })
  IN IF other = Null THEN s
     ELSE [ s EXCEPT !.currentTurn = other ]

switchTurn_Same(s, userId, t) ==
  LET other ==
        FirstId(s.players,
                { i \in DOMAIN s.players : s.players[i].userId = userId })
  IN IF other = Null THEN s
     ELSE [ s EXCEPT !.currentTurn = other,
                     !.turnStartTimestamp =
                       IF s.mode = "timed" THEN Timestamp(t) ELSE @ ]

switchTurn(s, userId, t) ==
  LET other ==
        FirstId(s.players,
                { i \in DOMAIN s.players : s.players[i].userId # userId })
  IN IF other = Null THEN s
     ELSE [ s EXCEPT !.currentTurn = other,
                     !.turnStartTimestamp =
                       IF s.mode = "timed" THEN Timestamp(t) ELSE @ ]

\* the game is over: w is "draw" or the winning symbol
completeGame(s, w) ==
  LET holder ==
        FirstId(s.players,
                { i \in DOMAIN s.players : s.players[i].symbol = w })
  IN [ s EXCEPT !.status = "completed",
                !.winner = IF w = "draw" THEN "draw"
                           ELSE IF holder # Null THEN holder
                           ELSE @ ]

handleMove_LedgerThrows(s, L, userId, position, t, fail) ==
  IF validateMove(s, userId, position) # "ok"
  THEN Result(s, L, << >>, "move_rejected")
  ELSE
    LET symbol == Player(s.players, userId).symbol
        s0 == [ s EXCEPT !.board[position] = symbol ]
        w == checkWinner(s0.board)
    IN IF w # Null
       THEN LET s1 == completeGame(s0, w)
            IN IF fail # {}
               THEN Result(s1, L, << >>, "message_error")
               ELSE Result(s1, updateLeaderboard(s1, L, fail),
                           << StateUpdate(s1) >>, "move_applied")
       ELSE LET s1 == switchTurn(s0, userId, t)
            IN Result(s1, L, << StateUpdate(s1) >>, "move_applied")

handleMove_RejectBroadcast(s, L, userId, position, t, fail) ==
  IF validateMove(s, userId, position) # "ok"
  THEN Result(s, L, << StateUpdate(s) >>, "move_rejected")
  ELSE
    LET symbol == Player(s.players, userId).symbol
        s0 == [ s EXCEPT !.board[position] = symbol ]
        w == checkWinner(s0.board)
    IN IF w # Null
       THEN LET s1 == completeGame(s0, w)
            IN Result(s1, updateLeaderboard(s1, L, fail),
                      << StateUpdate(s1) >>, "move_applied")
       ELSE LET s1 == switchTurn(s0, userId, t)
            IN Result(s1, L, << StateUpdate(s1) >>, "move_applied")

handleMove(s, L, userId, position, t, fail) ==
  IF validateMove(s, userId, position) # "ok"
  THEN Result(s, L, << >>, "move_rejected")
  ELSE
    LET symbol == Player(s.players, userId).symbol
        s0 == [ s EXCEPT !.board[position] = symbol ]
        w == checkWinner(s0.board)
    IN IF w # Null
       THEN LET s1 == completeGame(s0, w)
            IN Result(s1, updateLeaderboard(s1, L, fail),
                      << StateUpdate(s1) >>, "move_applied")
       ELSE LET s1 == switchTurn(s0, userId, t)
            IN Result(s1, L, << StateUpdate(s1) >>, "move_applied")

\* ---------------------------------------------------------------- helpers
Range(f) == { f[i] : i \in DOMAIN f }

\* the handler returns the state object: every field is taken from it
SetState(s) ==
  /\ board' = s.board
  /\ currentTurn' = s.currentTurn
  /\ players' = s.players
  /\ status' = s.status
  /\ winner' = s.winner
  /\ mode' = s.mode
  /\ createdAt' = s.createdAt
  /\ turnStartTimestamp' = s.turnStartTimestamp

SetLedger(L) ==
  /\ wins' = L.wins
  /\ losses' = L.losses
  /\ streaks' = L.streaks
  /\ lbLog' = L.lbLog

\* ------------------------------------------------------------------- Init
\* matchInit(params): a fresh match of the requested mode, labelled open.
matchInit(m) ==
  /\ board = [ c \in Cells |-> Null ]
  /\ currentTurn = Null
  /\ players = << >>
  /\ status = "waiting"
  /\ winner = Null
  /\ mode = m
  /\ createdAt = 0
  /\ turnStartTimestamp = NoTimestamp
  /\ label = [ open |-> 1, mode |-> m ]

Init ==
  /\ \E m \in GameMode : matchInit(m)
  /\ now = 0
  /\ admitted = {}
  /\ pc = "idle"
  /\ log = "none"
  /\ out = << >>
  /\ wins = [ u \in Users |-> 0 ]
  /\ losses = [ u \in Users |-> 0 ]
  /\ streaks = [ u \in Users |-> NoRecord ]
  /\ lbLog = << >>
  /\ lastMover = Null
  /\ outcome = "unset"
  /\ accepted = 0
  /\ tickTurn = Null
  /\ registry = << >>
  /\ rpc = [ c \in Callers |-> NoCall ]
  /\ accounts = Users

\* ------------------------------------------------------- matchJoinAttempt
\* A user who is not in the match asks to join; an accepted attempt is
\* applied later by matchJoin.
\* the verdict of matchJoinAttempt on the state s: accept is true or false
joinAttempt(s) ==
  LET playerCount == Len(PlayerIds(s.players))
  IN IF playerCount >= 2
     THEN [ accept |-> FALSE, rejectMessage |-> "Match is full (2 players max)" ]
     ELSE [ accept |-> TRUE, rejectMessage |-> "" ]

matchJoinAttempt(userId) ==
  /\ pc = "idle"
  /\ userId \notin IdSet(players)
  /\ userId \notin admitted
  /\ IF joinAttempt(GameState).accept
     THEN admitted' = admitted \cup { userId }
     ELSE admitted' = admitted
  /\ log' = "none"
  /\ out' = << >>
  /\ UNCHANGED << gsVars, label, now, pc, ledgerVars, lastMover, outcome,
                  accepted, tickTurn,
                  registryVars >>

\* -------------------------------------------------------------- matchJoin
RECURSIVE addPresences(_, _)
addPresences(ps, presences) ==
  IF presences = << >> THEN ps
  ELSE LET userId == Head(presences)
           playerCount == Len(PlayerIds(ps))
           symbol == IF playerCount = 0 THEN "X" ELSE "O"
           entry == [ userId |-> userId, symbol |-> symbol,
                      connected |-> TRUE ]
           i == IndexOf(ps, userId)
           ps1 == IF i = 0 THEN Append(ps, entry)
                  ELSE [ ps EXCEPT ![i] = entry ]
       IN addPresences(ps1, Tail(presences))

joinState_AlwaysTimer(s, presences, t) ==
  LET ps1 == addPresences(s.players, presences)
      starts == Len(PlayerIds(ps1)) = 2
      xHolder == FirstId(ps1, { i \in DOMAIN ps1 : ps1[i].symbol = "X" })
  IN IF ~starts THEN [ s EXCEPT !.players = ps1 ]
     ELSE [ s EXCEPT !.players = ps1,
                     !.status = "active",
                     !.currentTurn = IF xHolder # Null THEN xHolder ELSE @,
                     !.turnStartTimestamp = Timestamp(t) ]

joinState_AtLeastTwo(s, presences, t) ==
  LET ps1 == addPresences(s.players, presences)
      starts == Len(PlayerIds(ps1)) >= 2
      xHolder == FirstId(ps1, { i \in DOMAIN ps1 : ps1[i].symbol = "X" })
  IN IF ~starts THEN [ s EXCEPT !.players = ps1 ]
     ELSE [ s EXCEPT !.players = ps1,
                     !.status = "active",
                     !.currentTurn = IF xHolder # Null THEN xHolder ELSE @,
                     !.turnStartTimestamp =
                       IF s.mode = "timed" THEN Timestamp(t)
                       ELSE NoTimestamp ]

joinState(s, presences, t) ==
  LET ps1 == addPresences(s.players, presences)
      starts == Len(PlayerIds(ps1)) = 2
      xHolder == FirstId(ps1, { i \in DOMAIN ps1 : ps1[i].symbol = "X" })
  IN IF ~starts THEN [ s EXCEPT !.players = ps1 ]
     ELSE [ s EXCEPT !.players = ps1,
                     !.status = "active",
                     !.currentTurn = IF xHolder # Null THEN xHolder ELSE @,
                     !.turnStartTimestamp =
                       IF s.mode = "timed" THEN Timestamp(t)
                       ELSE NoTimestamp ]

matchJoin_KeepsLabel(presences) ==
  /\ pc = "idle"
  /\ presences \in Batches(admitted)
  /\ LET s1 == joinState(GameState, presences, now)
     IN /\ SetState(s1)
        /\ label' = label
        /\ out' = << StateUpdate(s1) >>
  /\ admitted' = admitted \ Range(presences)
  /\ log' = "none"
  /\ UNCHANGED << now, pc, ledgerVars, lastMover, outcome, accepted, tickTurn,
                  registryVars >>

matchJoin(presences) ==
  /\ pc = "idle"
  /\ presences \in Batches(admitted)
  /\ LET s1 == joinState(GameState, presences, now)
     IN /\ SetState(s1)
        /\ label' = IF Len(PlayerIds(s1.players)) = 2
                    THEN [ open |-> 0, mode |-> s1.mode ] ELSE label
        /\ out' = << StateUpdate(s1) >>
  /\ admitted' = admitted \ Range(presences)
  /\ log' = "none"
  /\ UNCHANGED << now, pc, ledgerVars, lastMover, outcome, accepted, tickTurn,
                  registryVars >>

\* -------------------------------------------------------------- matchLoop
\* the client messages of a tick
MoveMessages(senders, positions) ==
  [ opCode : { "MAKE_MOVE" }, sender : senders, decodable : { TRUE },
    position : positions ]

OtherMessages(senders) ==
  [ opCode : { "MAKE_MOVE", "WEBRTC_OFFER", "UNKNOWN" }, sender : senders,
    decodable : { FALSE }, position : { 0 } ]
  \cup
  [ opCode : { "WEBRTC_OFFER", "UNKNOWN" }, sender : senders,
    decodable : { TRUE }, position : { 0 } ]

processMessage_ErrorBroadcasts(s, L, message, t, fail) ==
  IF ~message.decodable
  THEN Result(s, L, << StateUpdate(s) >>, "message_error")
  ELSE IF message.opCode = "MAKE_MOVE"
  THEN handleMove(s, L, message.sender, message.position, t, fail)
  ELSE IF message.opCode = "WEBRTC_OFFER"
  THEN Result(s, L, << [ opCode |-> "WEBRTC_OFFER", data |-> "relay" ] >>,
              "voice_relayed")
  ELSE Result(s, L, << >>, "unknown_opcode")

\* one iteration of the message loop (lines 152-200)
processMessage(s, L, message, t, fail) ==
  IF ~message.decodable
  THEN Result(s, L, << >>, "message_error")
  ELSE IF message.opCode = "MAKE_MOVE"
  THEN handleMove(s, L, message.sender, message.position, t, fail)
  ELSE IF message.opCode = "WEBRTC_OFFER"
  THEN Result(s, L, << [ opCode |-> "WEBRTC_OFFER", data |-> "relay" ] >>,
              "voice_relayed")
  ELSE Result(s, L, << >>, "unknown_opcode")

\* the player whose turn has lasted TIMEOUT_MS or longer at time t, or Null
TurnRunOut(s, t) ==
  IF /\ s.mode = "timed"
     /\ s.status = "active"
     /\ s.turnStartTimestamp # NoTimestamp
     /\ s.currentTurn # Null
     /\ t - s.turnStartTimestamp[1] >= TIMEOUT_MS
  THEN s.currentTurn
  ELSE Null

matchLoopMessage_TimesOut(message, failures) ==
  /\ pc \in { "idle", "loop" }
  /\ pc' = "loop"
  /\ \E fail \in failures :
       LET r0 == processMessage(GameState, Ledger, message, now, fail)
           opponent ==
             FirstId(r0.state.players,
                     { i \in DOMAIN r0.state.players :
                         r0.state.players[i].userId # r0.state.currentTurn })
           r == IF TurnRunOut(r0.state, now) # Null /\ opponent # Null
                THEN [ r0 EXCEPT !.state.status = "completed",
                                 !.state.winner = opponent ]
                ELSE r0
       IN /\ SetState(r.state)
          /\ SetLedger(r.ledger)
          /\ out' = r.out
          /\ log' = r.log
          /\ lastMover' = IF r.log = "move_applied" THEN message.sender
                          ELSE lastMover
          /\ accepted' = IF r.log = "move_applied" THEN accepted + 1
                         ELSE accepted
  /\ tickTurn' = IF pc = "idle" THEN TurnRunOut(GameState, now) ELSE tickTurn
  /\ UNCHANGED << label, now, admitted, outcome,
                  registryVars >>

matchLoopMessage_ChecksFirst(message, failures) ==
  /\ pc \in { "idle", "loop" }
  /\ pc' = "loop"
  /\ \E fail \in failures :
       LET opponent ==
             FirstId(players,
                     { i \in DOMAIN players :
                         players[i].userId # currentTurn })
           s0 == IF /\ pc = "idle"
                    /\ TurnRunOut(GameState, now) # Null
                    /\ opponent # Null
                 THEN [ GameState EXCEPT !.status = "completed",
                                         !.winner = opponent ]
                 ELSE GameState
           r == processMessage(s0, Ledger, message, now, fail)
       IN /\ SetState(r.state)
          /\ SetLedger(r.ledger)
          /\ out' = r.out
          /\ log' = r.log
          /\ lastMover' = IF r.log = "move_applied" THEN message.sender
                          ELSE lastMover
          /\ accepted' = IF r.log = "move_applied" THEN accepted + 1
                         ELSE accepted
  /\ tickTurn' = IF pc = "idle" THEN TurnRunOut(GameState, now) ELSE tickTurn
  /\ UNCHANGED << label, now, admitted, outcome,
                  registryVars >>

matchLoopMessage(message, failures) ==
  /\ pc \in { "idle", "loop" }
  /\ pc' = "loop"
  /\ \E fail \in failures :
       LET r == processMessage(GameState, Ledger, message, now, fail)
       IN /\ SetState(r.state)
          /\ SetLedger(r.ledger)
          /\ out' = r.out
          /\ log' = r.log
          /\ lastMover' = IF r.log = "move_applied" THEN message.sender
                          ELSE lastMover
          /\ accepted' = IF r.log = "move_applied" THEN accepted + 1
                         ELSE accepted
  /\ tickTurn' = IF pc = "idle" THEN TurnRunOut(GameState, now) ELSE tickTurn
  /\ UNCHANGED << label, now, admitted, outcome,
                  registryVars >>

\* the turn-timeout check that closes every tick (lines 202-229)
checkTimeout_NoLeaderboard(s, L, t, fail) ==
  IF /\ s.mode = "timed"
     /\ s.status = "active"
     /\ s.turnStartTimestamp # NoTimestamp
     /\ s.currentTurn # Null
  THEN
    LET timeElapsed == t - s.turnStartTimestamp[1]
        opponent ==
          FirstId(s.players,
                  { i \in DOMAIN s.players :
                      s.players[i].userId # s.currentTurn })
    IN IF timeElapsed >= TIMEOUT_MS /\ opponent # Null
       THEN LET s1 == [ s EXCEPT !.winner = opponent,
                                 !.status = "completed" ]
            IN Result(s1, L, << StateUpdate(s1) >>, "none")
       ELSE Result(s, L, << >>, "none")
  ELSE Result(s, L, << >>, "none")

checkTimeout_Late(s, L, t, fail) ==
  IF /\ s.mode = "timed"
     /\ s.status = "active"
     /\ s.turnStartTimestamp # NoTimestamp
     /\ s.currentTurn # Null
  THEN
    LET timeElapsed == t - s.turnStartTimestamp[1]
        opponent ==
          FirstId(s.players,
                  { i \in DOMAIN s.players :
                      s.players[i].userId # s.currentTurn })
    IN IF timeElapsed > TIMEOUT_MS /\ opponent # Null
       THEN LET s1 == [ s EXCEPT !.winner = opponent,
                                 !.status = "completed" ]
            IN Result(s1, updateLeaderboard(s1, L, fail),
                      << StateUpdate(s1) >>, "none")
       ELSE Result(s, L, << >>, "none")
  ELSE Result(s, L, << >>, "none")

checkTimeout_Silent(s, L, t, fail) ==
  IF /\ s.mode = "timed"
     /\ s.status = "active"
     /\ s.turnStartTimestamp # NoTimestamp
     /\ s.currentTurn # Null
  THEN
    LET timeElapsed == t - s.turnStartTimestamp[1]
        opponent ==
          FirstId(s.players,
                  { i \in DOMAIN s.players :
                      s.players[i].userId # s.currentTurn })
    IN IF timeElapsed >= TIMEOUT_MS /\ opponent # Null
       THEN LET s1 == [ s EXCEPT !.winner = opponent,
                                 !.status = "completed" ]
            IN Result(s1, updateLeaderboard(s1, L, fail), << >>, "none")
       ELSE Result(s, L, << >>, "none")
  ELSE Result(s, L, << >>, "none")

checkTimeout(s, L, t, fail) ==
  IF /\ s.mode = "timed"
     /\ s.status = "active"
     /\ s.turnStartTimestamp # NoTimestamp
     /\ s.currentTurn # Null
  THEN
    LET timeElapsed == t - s.turnStartTimestamp[1]
        opponent ==
          FirstId(s.players,
                  { i \in DOMAIN s.players :
                      s.players[i].userId # s.currentTurn })
    IN IF timeElapsed >= TIMEOUT_MS /\ opponent # Null
       THEN LET s1 == [ s EXCEPT !.winner = opponent,
                                 !.status = "completed" ]
            IN Result(s1, updateLeaderboard(s1, L, fail),
                      << StateUpdate(s1) >>, "none")
       ELSE Result(s, L, << >>, "none")
  ELSE Result(s, L, << >>, "none")

matchLoopEnd(failures) ==
  /\ pc \in { "idle", "loop" }
  /\ pc' = "idle"
  /\ \E fail \in failures :
       LET r == checkTimeout(GameState, Ledger, now, fail)
       IN /\ SetState(r.state)
          /\ SetLedger(r.ledger)
          /\ out' = r.out
          /\ log' = r.log
  /\ tickTurn' = Null
  /\ UNCHANGED << label, now, admitted, lastMover, outcome, accepted,
                  registryVars >>

\* ------------------------------------------------------------- matchLeave
leaveOne_LeaverWins(r, userId, fail) ==
  LET s == r.state
      i == IndexOf(s.players, userId)
  IN IF s.status = "waiting"
     THEN [ r EXCEPT !.state.players = RemovePlayer(@, userId) ]
     ELSE
       LET ps1 == IF i = 0 THEN s.players
                  ELSE [ s.players EXCEPT ![i].connected = FALSE ]
           other ==
             FirstId(ps1,
                     { j \in DOMAIN ps1 :
                         ps1[j].userId # userId /\ ps1[j].connected })
       IN IF s.status = "active" /\ other # Null
          THEN LET s1 == [ s EXCEPT !.players = ps1,
                                    !.status = "completed",
                                    !.winner = userId ]
               IN [ state |-> s1,
                    ledger |-> updateLeaderboard(s1, r.ledger, fail),
                    out |-> r.out, log |-> r.log ]
          ELSE [ r EXCEPT !.state.players = ps1 ]

leaveOne_AnyStatus(r, userId, fail) ==
  LET s == r.state
      i == IndexOf(s.players, userId)
  IN IF s.status = "waiting"
     THEN [ r EXCEPT !.state.players = RemovePlayer(@, userId) ]
     ELSE
       LET ps1 == IF i = 0 THEN s.players
                  ELSE [ s.players EXCEPT ![i].connected = FALSE ]
           other ==
             FirstId(ps1,
                     { j \in DOMAIN ps1 :
                         ps1[j].userId # userId /\ ps1[j].connected })
       IN IF other # Null
          THEN LET s1 == [ s EXCEPT !.players = ps1,
                                    !.status = "completed",
                                    !.winner = other ]
               IN [ state |-> s1,
                    ledger |-> updateLeaderboard(s1, r.ledger, fail),
                    out |-> r.out, log |-> r.log ]
          ELSE [ r EXCEPT !.state.players = ps1 ]

leaveOne(r, userId, fail) ==
  LET s == r.state
      i == IndexOf(s.players, userId)
  IN IF s.status = "waiting"
     THEN [ r EXCEPT !.state.players = RemovePlayer(@, userId) ]
     ELSE
       LET ps1 == IF i = 0 THEN s.players
                  ELSE [ s.players EXCEPT ![i].connected = FALSE ]
           other ==
             FirstId(ps1,
                     { j \in DOMAIN ps1 :
                         ps1[j].userId # userId /\ ps1[j].connected })
       IN IF s.status = "active" /\ other # Null
          THEN LET s1 == [ s EXCEPT !.players = ps1,
                                    !.status = "completed",
                                    !.winner = other ]
               IN [ state |-> s1,
                    ledger |-> updateLeaderboard(s1, r.ledger, fail),
                    out |-> r.out, log |-> r.log ]
          ELSE [ r EXCEPT !.state.players = ps1 ]

RECURSIVE leaveAll(_, _, _)
leaveAll(r, presences, fail) ==
  IF presences = << >> THEN r
  ELSE leaveAll(leaveOne(r, Head(presences), fail), Tail(presences), fail)

Connected(ps) == { ps[i].userId : i \in { j \in 1..Len(ps) : ps[j].connected } }

matchLeave(presences, failures) ==
  /\ pc = "idle"
  /\ presences \in Batches(Connected(players))
  /\ \E fail \in failures :
       LET r == leaveAll(Result(GameState, Ledger, << >>, "none"),
                         presences, fail)
       IN /\ SetState(r.state)
          /\ SetLedger(r.ledger)
          /\ out' = << StateUpdate(r.state) >>
          /\ log' = r.log
  /\ UNCHANGED << label, now, admitted, pc, lastMover, outcome, accepted,
                  tickTurn,
                  registryVars >>

\* ------------------------------------------------------------------ clock
AdvanceClock ==
  /\ pc = "idle"
  /\ now + ClockStep <= MaxClockSteps * ClockStep
  /\ now' = now + ClockStep
  /\ UNCHANGED << gsVars, label, admitted, pc, log, out, ledgerVars,
                  lastMover, outcome, accepted, tickTurn,
                  registryVars >>

\* ---------------------------------------------------------- specifications
\* Spec: the lobby.  Any of the NumUsers users may join, leave and send,
\* clients send moves for the cells 0..LobbyCells-1 and for two positions
\* off the board; the clock stands still and no ledger call fails.
Next ==
  \/ \E u \in Users : matchJoinAttempt(u)
  \/ \E b \in Batches(Users) : matchJoin(b)
  \/ \E m \in MoveMessages(Users, Positions(LobbyCells)) :
       matchLoopMessage(m, NoFailure)
  \/ matchLoopEnd(NoFailure)
  \/ \E b \in Batches(Users) : matchLeave(b, NoFailure)

Spec == Init /\ [][Next]_vars

\* SpecTimed: two users and a running clock.
NextTimed ==
  \/ \E u \in GameUsers : matchJoinAttempt(u)
  \/ \E b \in Batches(GameUsers) : matchJoin(b)
  \/ \E m \in MoveMessages(GameUsers, Positions(NumCells)) :
       matchLoopMessage(m, NoFailure)
  \/ matchLoopEnd(NoFailure)
  \/ \E b \in Batches(GameUsers) : matchLeave(b, NoFailure)
  \/ AdvanceClock

SpecTimed == Init /\ [][NextTimed]_vars

\* SpecLive: the lobby with a running clock, under the scheduling the server
\* guarantees: the match loop keeps ticking and time keeps advancing.  The
\* clock of the model ends at MaxClockSteps steps, so players join and send
\* moves only while a whole turn of TIMEOUT_MS still fits before that end.
InTime == now + TIMEOUT_MS <= MaxClockSteps * ClockStep

NextLive ==
  \/ \E u \in Users : matchJoinAttempt(u)
  \/ \E b \in Batches(Users) : InTime /\ matchJoin(b)
  \/ \E m \in MoveMessages(Users, Positions(LobbyCells)) :
       InTime /\ matchLoopMessage(m, NoFailure)
  \/ matchLoopEnd(NoFailure)
  \/ \E b \in Batches(Users) : matchLeave(b, NoFailure)
  \/ AdvanceClock

SpecLive ==
  /\ Init
  /\ [][NextLive]_vars
  /\ WF_vars(matchLoopEnd(NoFailure))
  /\ SF_vars(AdvanceClock)

\* SpecMessages: two users, a running clock, every kind of client message.
NextMessages ==
  \/ \E u \in GameUsers : matchJoinAttempt(u)
  \/ \E b \in Batches(GameUsers) : matchJoin(b)
  \/ \E m \in MoveMessages(GameUsers, Positions(LobbyCells))
                \cup OtherMessages(GameUsers) :
       matchLoopMessage(m, NoFailure)
  \/ matchLoopEnd(NoFailure)
  \/ \E b \in Batches(GameUsers) : matchLeave(b, NoFailure)
  \/ AdvanceClock

SpecMessages == Init /\ [][NextMessages]_vars

\* SpecGame: two users who stay connected play on the whole board.
NextGame ==
  \/ \E u \in GameUsers : matchJoinAttempt(u)
  \/ \E b \in Batches(GameUsers) : matchJoin(b)
  \/ \E m \in MoveMessages(GameUsers, GamePositions) :
       matchLoopMessage(m, NoFailure)
  \/ matchLoopEnd(NoFailure)

SpecGame == Init /\ [][NextGame]_vars

\* SpecFailures: two users who move and leave; one or all of the ledger
\* calls of a terminal-outcome handling may fail.
SomeFailures == { {} } \cup { { op } : op \in LedgerOps } \cup { LedgerOps }

NextFailures ==
  \/ \E u \in GameUsers : matchJoinAttempt(u)
  \/ \E b \in Batches(GameUsers) : matchJoin(b)
  \/ \E m \in MoveMessages(GameUsers, 0..(NumCells - 1)) :
       matchLoopMessage(m, SomeFailures)
  \/ matchLoopEnd(SomeFailures)
  \/ \E b \in Batches(GameUsers) : matchLeave(b, SomeFailures)

SpecFailures == Init /\ [][NextFailures]_vars

\* SpecLedger: three users who may join and stay connected, two of them
\* sending moves for the cells of the whole board, with streak records left
\* behind by earlier matches.
LedgerUsers == { AllUserIds[1], AllUserIds[2], AllUserIds[3] }

PriorStreaks ==
  [ u \in Users |->
      IF u = AllUserIds[1] THEN Record(1, 2)
      ELSE IF u = AllUserIds[2] THEN NoRecord
      ELSE Record(2, 2) ]

InitLedger ==
  /\ matchInit("classic")
  /\ now = 0
  /\ admitted = {}
  /\ pc = "idle"
  /\ log = "none"
  /\ out = << >>
  /\ wins = [ u \in Users |-> 0 ]
  /\ losses = [ u \in Users |-> 0 ]
  /\ streaks = PriorStreaks
  /\ lbLog = << >>
  /\ lastMover = Null
  /\ outcome = "unset"
  /\ accepted = 0
  /\ tickTurn = Null
  /\ registry = << >>
  /\ rpc = [ c \in Callers |-> NoCall ]
  /\ accounts = Users

NextLedger ==
  \/ \E u \in LedgerUsers : matchJoinAttempt(u)
  \/ \E b \in Batches(LedgerUsers) : matchJoin(b)
  \/ \E m \in MoveMessages(GameUsers, Cells) :
       matchLoopMessage(m, NoFailure)
  \/ matchLoopEnd(NoFailure)

SpecLedger == InitLedger /\ [][NextLedger]_vars

\* SpecStreaks: updateWinStreaks called in any order on any stored records,
\* also records whose currentWinStreak exceeds their bestWinStreak; the
\* storage read or the storage write of a call may fail.
StoredRecords ==
  { NoRecord } \cup { Record(c, b) : c \in 0..MaxStreak, b \in 0..MaxStreak }
StreakResults == { "win", "loss", "draw" }
StreakFailures == SUBSET { "storageRead", "storageWrite" }

InitStreaks ==
  /\ matchInit("classic")
  /\ now = 0
  /\ admitted = {}
  /\ pc = "idle"
  /\ log = "none"
  /\ out = << >>
  /\ wins = [ u \in Users |-> 0 ]
  /\ losses = [ u \in Users |-> 0 ]
  /\ \E stored \in [ GameUsers -> StoredRecords ] :
       streaks = [ u \in Users |->
                     IF u \in GameUsers THEN stored[u] ELSE NoRecord ]
  /\ lbLog = << >>
  /\ lastMover = Null
  /\ outcome = "unset"
  /\ accepted = 0
  /\ tickTurn = Null
  /\ registry = << >>
  /\ rpc = [ c \in Callers |-> NoCall ]
  /\ accounts = Users

\* one call updateWinStreaks(nk, userId, result, logger)
StreakCall(userId, result, fail) ==
  /\ IF result = "win" /\ "storageRead" \notin fail
        /\ streaks[userId] # NoRecord
     THEN streaks[userId][1].currentWinStreak < MaxStreak
     ELSE TRUE
  /\ streaks' = updateWinStreaks(streaks, userId, result, fail)
  /\ log' = IF "storageWrite" \in fail THEN "streak_error"
            ELSE "streak_saved"
  /\ UNCHANGED << gsVars, label, now, admitted, pc, out, wins, losses, lbLog,
                  lastMover, outcome, accepted, tickTurn,
                  registryVars >>

NextStreaks ==
  \E u \in GameUsers, result \in StreakResults, fail \in StreakFailures :
    StreakCall(u, result, fail)

SpecStreaks == InitStreaks /\ [][NextStreaks]_vars

\* SpecEvaluator: checkWinner applied to any board over {empty, X, O}.
Symbols == { "X", "O" }
Boards == [ Cells -> { Null } \cup Symbols ]

InitEvaluator ==
  /\ board \in Boards
  /\ currentTurn = Null
  /\ players = << >>
  /\ status = "waiting"
  /\ winner = Null
  /\ mode = "classic"
  /\ createdAt = 0
  /\ turnStartTimestamp = NoTimestamp
  /\ label = [ open |-> 1, mode |-> "classic" ]
  /\ now = 0
  /\ admitted = {}
  /\ pc = "idle"
  /\ log = "none"
  /\ out = << >>
  /\ wins = [ u \in Users |-> 0 ]
  /\ losses = [ u \in Users |-> 0 ]
  /\ streaks = [ u \in Users |-> NoRecord ]
  /\ lbLog = << >>
  /\ lastMover = Null
  /\ outcome = "unset"
  /\ accepted = 0
  /\ tickTurn = Null
  /\ registry = << >>
  /\ rpc = [ c \in Callers |-> NoCall ]
  /\ accounts = Users

Evaluate ==
  /\ outcome = "unset"
  /\ outcome' = checkWinner(board)
  /\ UNCHANGED << gsVars, label, now, admitted, pc, log, out, ledgerVars,
                  lastMover, accepted, tickTurn,
                  registryVars >>

NextEvaluator == Evaluate

SpecEvaluator == InitEvaluator /\ [][NextEvaluator]_vars

\* ------------------------------------------------------------ matchmaking
\* The find_match RPC (modules/src/main.ts) over a registry of matches.  RPC
\* calls run concurrently: a call is stepped at its two registry calls,
\* nk.matchList and nk.matchCreate.  Every match of the registry runs the
\* join and leave handlers of the match handler on its own state.

\* the entry of a match created with the mode m: matchInit's state and label
matchCreate(m) ==
  [ state |-> [ board |-> [ c \in Cells |-> Null ], currentTurn |-> Null,
                players |-> << >>, status |-> "waiting", winner |-> Null,
                mode |-> m, createdAt |-> 0,
                turnStartTimestamp |-> NoTimestamp ],
    label |-> [ open |-> 1, mode |-> m ],
    admitted |-> {} ]

\* the size of a match in the registry: its joined presences
matchSize(entry) == Cardinality(Connected(entry.state.players))

\* nk.matchList(10, true, "", null, maxSize, "+label.open:1 +label.mode:" + m):
\* the ids the listing holds.  The limit of 10 exceeds MaxMatches, so every
\* hit is listed; the order of the listing is the registry's, so any listed
\* id may be matches[0].
matchList_AnyMode(maxSize, m) ==
  { id \in DOMAIN registry :
      /\ registry[id].label.open = 1
      /\ matchSize(registry[id]) <= maxSize }

matchList_AnyLabel(maxSize, m) ==
  { id \in DOMAIN registry : registry[id].label.mode = m }

matchList(maxSize, m) ==
  { id \in DOMAIN registry :
      /\ registry[id].label.open = 1
      /\ registry[id].label.mode = m
      /\ matchSize(registry[id]) <= maxSize }

\* what find_match returns to the caller c who asked for the mode m, and
\* the error it throws to the caller instead
Response(c, m, id, isNew) ==
  [ caller |-> c, mode |-> m, matchId |-> id, created |-> isNew ]
ErrorResponse(c, message) == [ caller |-> c, error |-> message ]

\* the values of data.mode in the payload: the two modes, a mode the game
\* does not have, and two values JavaScript takes for false (a missing or
\* null mode, the empty string)
Falsy == { Null, "" }
PayloadModes == GameMode \cup { "ranked" } \cup Falsy

\* data.mode || "timed"
requestedMode_DefaultsAll(v) == IF v \notin GameMode THEN "timed" ELSE v

requestedMode(v) == IF v \in Falsy THEN "timed" ELSE v

\* rpcFindMatch up to its return, its throw or its call of nk.matchCreate;
\* listFails: nk.matchList throws
rpcFindMatch(c, v, listFails) ==
  /\ rpc[c].pc = "idle"
  /\ LET m == requestedMode(v)
         matches == matchList(1, m)
     IN IF m \notin GameMode
        THEN /\ out' = << ErrorResponse(c, "Invalid mode") >>
             /\ log' = "invalid_mode"
             /\ rpc' = rpc
        ELSE IF listFails
        THEN /\ out' = << ErrorResponse(c, "matchList") >>
             /\ log' = "list_error"
             /\ rpc' = rpc
        ELSE IF matches # {}
        THEN /\ \E id \in matches : out' = << Response(c, m, id, FALSE) >>
             /\ log' = "joining_existing"
             /\ rpc' = rpc
        ELSE /\ out' = << >>
             /\ log' = "creating"
             /\ rpc' = [ rpc EXCEPT ![c] = [ pc |-> "create", mode |-> m ] ]
  /\ UNCHANGED << gsVars, label, now, admitted, pc, ledgerVars,
                  lastMover, outcome, accepted, tickTurn, registry,
                  accounts >>

\* rpcFindMatch from nk.matchCreate to its return or its throw;
\* createFails: nk.matchCreate throws
rpcFindMatchCreate(c, createFails) ==
  /\ rpc[c].pc = "create"
  /\ rpc' = [ rpc EXCEPT ![c] = NoCall ]
  /\ IF createFails
     THEN /\ registry' = registry
          /\ out' = << ErrorResponse(c, "matchCreate") >>
          /\ log' = "create_error"
     ELSE /\ Len(registry) < MaxMatches
          /\ registry' = Append(registry, matchCreate(rpc[c].mode))
          /\ out' = << Response(c, rpc[c].mode, Len(registry) + 1, TRUE) >>
          /\ log' = "created"
  /\ UNCHANGED << gsVars, label, now, admitted, pc, ledgerVars,
                  lastMover, outcome, accepted, tickTurn, accounts >>

\* matchJoinAttempt, matchJoin and matchLeave of the match id, for the two
\* users of GameUsers; a leave is taken while the match waits for players
registryJoinAttempt(id, userId) ==
  /\ id \in DOMAIN registry
  /\ userId \notin IdSet(registry[id].state.players)
  /\ userId \notin registry[id].admitted
  /\ joinAttempt(registry[id].state).accept
  /\ registry' = [ registry EXCEPT ![id].admitted = @ \cup { userId } ]
  /\ out' = << >>
  /\ log' = "none"
  /\ UNCHANGED << gsVars, label, now, admitted, pc, ledgerVars,
                  lastMover, outcome, accepted, tickTurn, rpc,
                  accounts >>

registryJoin(id, presences) ==
  /\ id \in DOMAIN registry
  /\ presences \in Batches(registry[id].admitted)
  /\ LET s1 == joinState(registry[id].state, presences, now)
     IN registry' =
          [ registry EXCEPT
              ![id] = [ state |-> s1,
                        label |-> IF Len(PlayerIds(s1.players)) = 2
                                  THEN [ open |-> 0, mode |-> s1.mode ]
                                  ELSE @.label,
                        admitted |-> @.admitted \ Range(presences) ] ]
  /\ out' = << >>
  /\ log' = "none"
  /\ UNCHANGED << gsVars, label, now, admitted, pc, ledgerVars,
                  lastMover, outcome, accepted, tickTurn, rpc,
                  accounts >>

registryLeave(id, presences) ==
  /\ id \in DOMAIN registry
  /\ registry[id].state.status = "waiting"
  /\ presences \in Batches(Connected(registry[id].state.players))
  /\ LET r == leaveAll(Result(registry[id].state, Ledger, << >>, "none"),
                       presences, {})
     IN /\ registry' = [ registry EXCEPT ![id].state = r.state ]
        /\ SetLedger(r.ledger)
  /\ out' = << >>
  /\ log' = "none"
  /\ UNCHANGED << gsVars, label, now, admitted, pc,
                  lastMover, outcome, accepted, tickTurn, rpc,
                  accounts >>

NextRegistry ==
  \/ \E c \in Callers, v \in PayloadModes, listFails \in BOOLEAN :
       rpcFindMatch(c, v, listFails)
  \/ \E c \in Callers, createFails \in BOOLEAN :
       rpcFindMatchCreate(c, createFails)
  \/ \E id \in 1..MaxMatches, u \in GameUsers : registryJoinAttempt(id, u)
  \/ \E id \in 1..MaxMatches, b \in Batches(GameUsers) : registryJoin(id, b)
  \/ \E id \in 1..MaxMatches, b \in Batches(GameUsers) : registryLeave(id, b)

SpecRegistry == InitLedger /\ [][NextRegistry]_vars

\* ------------------------------------------------------- delete_user_data
\* The delete_user_data RPC (modules/src/main.ts) over the two leaderboards,
\* the streak storage and the accounts.  A leaderboard record is written
\* with increments of 1 only, so a score of 0 stands for no record.
DeleteOps == { "winsDelete", "lossesDelete", "storageDelete", "accountDelete" }

\* what delete_user_data returns to the caller
DeleteResponse(userId, ok) == [ caller |-> userId, success |-> ok ]

\* userId: ctx.userId, Null when the context has none; fail: the nk calls
\* that throw
rpcDeleteUserData_KeepsStreak(userId, fail) ==
  /\ IF userId = Null
     THEN /\ out' = << DeleteResponse(userId, FALSE) >>
          /\ log' = "delete_no_user"
          /\ UNCHANGED << wins, losses, streaks, accounts >>
     ELSE /\ wins' = IF "winsDelete" \in fail THEN wins
                     ELSE [ wins EXCEPT ![userId] = 0 ]
          /\ losses' = IF "lossesDelete" \in fail THEN losses
                       ELSE [ losses EXCEPT ![userId] = 0 ]
          /\ streaks' = streaks
          /\ accounts' = IF "accountDelete" \in fail THEN accounts
                         ELSE accounts \ { userId }
          /\ out' = << DeleteResponse(userId, TRUE) >>
          /\ log' = "delete_done"
  /\ UNCHANGED << gsVars, label, now, admitted, pc, lbLog, lastMover,
                  outcome, accepted, tickTurn, registry, rpc >>

rpcDeleteUserData(userId, fail) ==
  /\ IF userId = Null
     THEN /\ out' = << DeleteResponse(userId, FALSE) >>
          /\ log' = "delete_no_user"
          /\ UNCHANGED << wins, losses, streaks, accounts >>
     ELSE /\ wins' = IF "winsDelete" \in fail THEN wins
                     ELSE [ wins EXCEPT ![userId] = 0 ]
          /\ losses' = IF "lossesDelete" \in fail THEN losses
                       ELSE [ losses EXCEPT ![userId] = 0 ]
          /\ streaks' = IF "storageDelete" \in fail THEN streaks
                        ELSE [ streaks EXCEPT ![userId] = NoRecord ]
          /\ accounts' = IF "accountDelete" \in fail THEN accounts
                         ELSE accounts \ { userId }
          /\ out' = << DeleteResponse(userId, TRUE) >>
          /\ log' = "delete_done"
  /\ UNCHANGED << gsVars, label, now, admitted, pc, lbLog, lastMover,
                  outcome, accepted, tickTurn, registry, rpc >>

\* the stores before the first call: any counters and streak records of the
\* two users of GameUsers
InitAccounts ==
  /\ matchInit("classic")
  /\ now = 0
  /\ admitted = {}
  /\ pc = "idle"
  /\ log = "none"
  /\ out = << >>
  /\ \E w \in [ GameUsers -> 0..1 ] :
       wins = [ u \in Users |-> IF u \in GameUsers THEN w[u] ELSE 0 ]
  /\ \E l \in [ GameUsers -> 0..1 ] :
       losses = [ u \in Users |-> IF u \in GameUsers THEN l[u] ELSE 0 ]
  /\ \E st \in [ GameUsers -> { NoRecord, Record(1, 2) } ] :
       streaks = [ u \in Users |-> IF u \in GameUsers THEN st[u]
                                   ELSE NoRecord ]
  /\ lbLog = << >>
  /\ lastMover = Null
  /\ outcome = "unset"
  /\ accepted = 0
  /\ tickTurn = Null
  /\ registry = << >>
  /\ rpc = [ c \in Callers |-> NoCall ]
  /\ accounts = Users

NextAccounts ==
  \E userId \in GameUsers \cup { Null }, fail \in SUBSET DeleteOps :
    rpcDeleteUserData(userId, fail)

SpecAccounts == InitAccounts /\ [][NextAccounts]_vars

\* -------------------------------------------------------- get_leaderboard
\* The get_leaderboard RPC (modules/src/main.ts) as a function of the two
\* leaderboards and the streak storage.  Players are numbered here; a score
\* of 0 stands for no record.
LbPlayers == 1..MaxPlayers

RECURSIVE ByKeyDesc(_, _, _)
\* the elements of seq by key descending, equal keys in the order of seq
\* (Array.prototype.sort is stable); key maps an element to 0..k
ByKeyDesc(seq, key, k) ==
  LET here == SelectSeq(seq, LAMBDA e : key[e] = k)
  IN IF k = 0 THEN here ELSE here \o ByKeyDesc(seq, key, k - 1)

Take(seq, n) == SubSeq(seq, 1, IF Len(seq) < n THEN Len(seq) ELSE n)

\* nk.leaderboardRecordsList(id, [], limit, "", 0): the owners of the first
\* limit records of a leaderboard, best score first, equal scores by player
leaderboardRecordsList(scores, limit) ==
  LET owners == SelectSeq([ i \in LbPlayers |-> i ],
                          LAMBDA i : scores[i] > 0)
  IN Take(ByKeyDesc(owners, scores, MaxScore), limit)

\* getStreakData(nk, userId, logger)
getStreakData(st, userId, fail) ==
  IF "storageRead" \in fail \/ st[userId] = NoRecord
  THEN [ winStreak |-> 0, bestWinStreak |-> 0 ]
  ELSE [ winStreak |-> st[userId][1].currentWinStreak,
         bestWinStreak |-> st[userId][1].bestWinStreak ]

\* Math.round(winRate * 10) / 10, in tenths of a percent
winRate(w, l) ==
  IF w + l > 0 THEN (2000 * w + (w + l)) \div (2 * (w + l)) ELSE 0

\* the rows of the response, before the sort
playerStats(winsRecords, lossesRecords, st, fail) ==
  LET inWins == Range(winsRecords)
      keys == winsRecords \o
              SelectSeq(lossesRecords, LAMBDA i : i \notin inWins)
      row(i) ==
        LET w == IF i \in inWins THEN wins[i] ELSE 0
            l == IF i \in Range(lossesRecords) THEN losses[i] ELSE 0
            streakData == getStreakData(st, i, fail)
        IN [ userId |-> i, wins |-> w, losses |-> l,
             winRate |-> winRate(w, l),
             winStreak |-> streakData.winStreak,
             bestWinStreak |-> streakData.bestWinStreak ]
  IN [ k \in DOMAIN keys |-> row(keys[k]) ]

leaderboardRows(fail) ==
  LET rows == playerStats(leaderboardRecordsList(wins, ListLimit),
                          leaderboardRecordsList(losses, ListLimit),
                          streaks, fail)
      order == ByKeyDesc([ k \in DOMAIN rows |-> k ],
                         [ k \in DOMAIN rows |-> rows[k].wins ], MaxScore)
  IN Take([ k \in DOMAIN order |-> rows[order[k]] ], TopRows)

\* fail: the nk calls that throw
rpcGetLeaderboard(fail) ==
  /\ IF "recordsList" \in fail
     THEN /\ out' = << [ leaderboard |-> << >>, error |-> "recordsList" ] >>
          /\ log' = "leaderboard_error"
     ELSE /\ out' = << [ leaderboard |-> leaderboardRows(fail) ] >>
          /\ log' = IF fail = {} THEN "leaderboard" ELSE "leaderboard_defaults"
  /\ UNCHANGED << gsVars, label, now, admitted, pc, ledgerVars, lastMover,
                  outcome, accepted, tickTurn, registryVars >>

\* the stores when get_leaderboard is called: the first n players hold
\* records; with champion, player 1 has the most wins and the fewest losses
InitLeaderboard ==
  /\ matchInit("classic")
  /\ now = 0
  /\ admitted = {}
  /\ pc = "idle"
  /\ log = "none"
  /\ out = << >>
  /\ \E n \in 0..MaxPlayers, a \in 0..(MaxScore - 1), champion \in BOOLEAN :
       /\ wins = [ i \in LbPlayers |->
                     IF i > n THEN 0
                     ELSE IF champion /\ i = 1 THEN MaxScore
                     ELSE (a * i) % MaxScore ]
       /\ losses = [ i \in LbPlayers |->
                       IF i > n THEN 0
                       ELSE IF champion THEN (IF i = 1 THEN 1 ELSE 2)
                       ELSE (i + a) % MaxScore ]
       /\ streaks = [ i \in LbPlayers |->
                        IF i > n \/ i % 2 = 0 THEN NoRecord
                        ELSE Record(i % 3, 2) ]
  /\ lbLog = << >>
  /\ lastMover = Null
  /\ outcome = "unset"
  /\ accepted = 0
  /\ tickTurn = Null
  /\ registry = << >>
  /\ rpc = [ c \in Callers |-> NoCall ]
  /\ accounts = Users

NextLeaderboard ==
  \E fail \in SUBSET { "recordsList", "storageRead" } : rpcGetLeaderboard(fail)

SpecLeaderboard == InitLeaderboard /\ [][NextLeaderboard]_vars

\* ------------------------------------------------------------ properties
Marks(b) == { c \in Cells : b[c] # Null }

\* the four conditions of a legal move, for the message m in the current state
AllFour(m) ==
  /\ status = "active"
  /\ m.sender = currentTurn
  /\ m.position >= 0
  /\ m.position <= 8
  /\ board[m.position] = Null

\* b holds three marks sym on one of the 8 triples
HasTriple(b, sym) ==
  \E i \in 1..Len(winningLines) :
    \A k \in 1..3 : b[winningLines[i][k]] = sym

\* C1: in every reachable state, state.players has at most 2 entries.
C1_AtMostTwoPlayers == Len(players) <= 2

\* C2: handleMove writes the sender's mark into board[position] if and only
\* if the status is active, the sender is currentTurn, 0 <= position <= 8 and
\* board[position] is empty; otherwise the board is left as it was.
C2_MoveAcceptedIffAllFour ==
  [][ \A m \in MoveMessages(GameUsers, GamePositions) :
        IF AllFour(m)
        THEN \/ /\ board' = [ board EXCEPT
                                ![m.position] = Player(players, m.sender).symbol ]
                /\ log' = "move_applied"
             \/ ~matchLoopMessage(m, NoFailure)
        ELSE \/ /\ board' = board
                /\ log' = "move_rejected"
             \/ ~matchLoopMessage(m, NoFailure) ]_vars

C2_Witness ==
  /\ pc = "loop"
  /\ log = "move_applied"
  /\ status = "active"
  /\ Cardinality(Marks(board)) = 3

\* C3: a rejected move changes no field of the match state, broadcasts
\* nothing and writes to no ledger.
C3_RejectedMoveChangesNothing ==
  [][ \A m \in MoveMessages(GameUsers, Positions(NumCells)) :
        \/ AllFour(m)
        \/ /\ UNCHANGED gsVars
           /\ UNCHANGED ledgerVars
           /\ out' = << >>
        \/ ~matchLoopMessage(m, NoFailure) ]_vars

C3_Witness ==
  /\ pc = "loop"
  /\ log = "move_rejected"
  /\ status = "active"
  /\ mode = "timed"
  /\ turnStartTimestamp # NoTimestamp
  /\ now > turnStartTimestamp[1]
  /\ Marks(board) # {}
  /\ out = << >>

\* C4: once the status is completed no move is applied any more: the board
\* is the same in every later state.
C4_NoMoveAfterCompleted ==
  [][ status = "completed" => board' = board /\ log' # "move_applied" ]_vars

C4_Witness ==
  /\ status = "completed"
  /\ pc = "loop"
  /\ log = "move_rejected"
  /\ currentTurn # Null

C6_WinnerSetOnceAtCompletion ==
  /\ [] ( /\ winner # Null => status = "completed"
          /\ status = "completed" => winner \in { "draw" } \cup IdSet(players) )
  /\ [][ winner # Null => winner' = winner ]_vars

C6_Witness ==
  /\ status = "completed"
  /\ \E i \in 1..Len(players) :
       players[i].userId = winner /\ ~players[i].connected

\* C7: when the status is active or completed, players has exactly 2 entries,
\* the one who joined first holding X and the other holding O.
C7_TwoPlayersXThenO ==
  status \in { "active", "completed" } =>
    /\ Len(players) = 2
    /\ players[1].symbol = "X"
    /\ players[2].symbol = "O"

\* C8: in every active state currentTurn is set and is one of the players.
C8_CurrentTurnIsAPlayer ==
  status = "active" => currentTurn # Null /\ currentTurn \in IdSet(players)

\* C9: an applied move that does not end the game passes the turn to a player
\* other than the mover, and two applied moves in a row are never made by the
\* same player.
C9_TurnsAlternate ==
  [][ board' # board =>
        /\ lastMover' # lastMover
        /\ lastMover' = currentTurn
        /\ status' = "active" => currentTurn' # lastMover' ]_vars

C9_Witness ==
  /\ status = "active"
  /\ lastMover # Null
  /\ currentTurn # lastMover
  /\ Cardinality(Marks(board)) = 4

\* C10: an applied move that completes a triple ends the game with the mover
\* as winner, also when it fills the last cell; one that fills the board
\* without a triple ends it with winner "draw"; any other applied move leaves
\* the status active and winner null.
C10_MoveOutcome ==
  [][ board' # board =>
        LET actor == lastMover'
            sym == Player(players, actor).symbol
            full == Marks(board') = Cells
        IN IF HasTriple(board', sym)
           THEN status' = "completed" /\ winner' = actor
           ELSE IF full
           THEN status' = "completed" /\ winner' = "draw"
           ELSE status' = "active" /\ winner' = Null ]_vars

C10_Witness ==
  /\ status = "completed"
  /\ winner \in GameUsers
  /\ Marks(board) = Cells
  /\ HasTriple(board, Player(players, winner).symbol)

\* the 8 triples of the 3x3 grid: its rows, its columns, its two diagonals
FixedTriples ==
  { { 3 * r, 3 * r + 1, 3 * r + 2 } : r \in 0..2 }
  \cup { { c, c + 3, c + 6 } : c \in 0..2 }
  \cup { { 0, 4, 8 }, { 2, 4, 6 } }

TripleOf(b, sym) == \E t \in FixedTriples : \A c \in t : b[c] = sym

\* C11: for every board, checkWinner returns null, a mark or "draw"; a mark
\* if and only if one of the 8 triples holds three equal marks (and then a mark
\* that holds one), "draw" if and only if no triple matches and no cell is
\* empty, and null otherwise.
C11_CheckWinnerOutcome ==
  outcome # "unset" =>
    LET win == \E sym \in Symbols : TripleOf(board, sym)
        full == \A c \in Cells : board[c] # Null
    IN /\ outcome \in { Null, "draw" } \cup Symbols
       /\ outcome \in Symbols <=> win
       /\ outcome \in Symbols => TripleOf(board, outcome)
       /\ outcome = "draw" <=> ~win /\ full
       /\ outcome = Null <=> ~win /\ ~full

C11_Witness ==
  /\ outcome = "O"
  /\ TripleOf(board, "X")
  /\ board[0] = "O" /\ board[1] = "O" /\ board[2] = "O"

\* C12: no reachable board holds a complete triple of X and a complete
\* triple of O at once; every complete triple on a reachable board holds the
\* mark checkWinner returns, whichever triple is looked at first.
C12_OneWinningMark ==
  /\ ~ (TripleOf(board, "X") /\ TripleOf(board, "O"))
  /\ \A t \in FixedTriples : \A sym \in Symbols :
       (\A c \in t : board[c] = sym) => checkWinner(board) = sym

C12_Witness ==
  /\ status = "completed"
  /\ Cardinality({ t \in FixedTriples : \A c \in t : board[c] = "X" }) = 2
  /\ \E t \in FixedTriples :
       Cardinality({ c \in t : board[c] = "O" }) = 2

CountOf(b, sym) == Cardinality({ c \in DOMAIN b : b[c] = sym })

\* C13: the board always has its 9 cells, as many of them marked as moves
\* were applied, with as many X as O or one X more; a marked cell keeps its
\* mark in every later state.
C13_BoardCountsMoves ==
  /\ [] ( /\ DOMAIN board = Cells
          /\ \A c \in Cells : board[c] \in { Null } \cup Symbols
          /\ Cardinality(Marks(board)) = accepted
          /\ CountOf(board, "X") - CountOf(board, "O") \in { 0, 1 } )
  /\ [][ \A c \in Cells : board[c] # Null => board'[c] = board[c] ]_vars

C13_Witness ==
  /\ accepted = 9
  /\ winner = "draw"
  /\ CountOf(board, "X") = 5
  /\ CountOf(board, "O") = 4

\* a step of matchLoopEnd completes the match only when the turn has run out
TimeoutNotEarly ==
  \/ ~ (status = "active" /\ status' = "completed")
  \/ TurnRunOut(GameState, now) # Null
  \/ ~matchLoopEnd(NoFailure)

C15_LeaverForfeits ==
  [][ \A b \in Batches(GameUsers) :
        \/ status # "active"
        \/ LET A == b[1]
               B == CHOOSE u \in IdSet(players) : u # A
           IN /\ Player(players, B).connected
              /\ status' = "completed"
              /\ winner' = B
              /\ ~ Player(players', A).connected
              /\ lbLog' = Append(lbLog, B)
              /\ out' = << StateUpdate(GameState') >>
        \/ ~matchLeave(b, NoFailure) ]_vars

C15_Witness ==
  /\ status = "completed"
  /\ mode = "classic"
  /\ accepted = 3
  /\ ~ \E sym \in Symbols : TripleOf(board, sym)
  /\ winner \in Connected(players)
  /\ Connected(players) # IdSet(players)
  /\ lbLog = << winner >>
  /\ out = << StateUpdate(GameState) >>

\* C16: a matchLeave on a waiting match removes the leavers from players and
\* leaves the status waiting, and the match it leaves behind accepts the join
\* attempt of another player.
C16_WaitingLeaveFreesSlot ==
  [][ \A b \in Batches(Users) :
        \/ status # "waiting"
        \/ /\ status' = "waiting"
           /\ players' = SelectSeq(players, LAMBDA p : p.userId \notin Range(b))
           /\ joinAttempt(GameState').accept
        \/ ~matchLeave(b, NoFailure) ]_vars

\* C17: a matchLeave on a completed match changes nothing: board, status,
\* winner, currentTurn and every entry of players, its connected flag
\* included, are as before, and nothing is written to a ledger.
C17_CompletedLeaveChangesNothing ==
  [][ \A b \in Batches(GameUsers) :
        \/ status # "completed"
        \/ /\ UNCHANGED << board, status, winner, currentTurn, players >>
           /\ UNCHANGED ledgerVars
        \/ ~matchLeave(b, NoFailure) ]_vars

\* C18: updateLeaderboard is called in a step if and only if that step takes
\* the status to completed, then once and with the winner the step leaves; so
\* it has been called once in a completed match and never in any other.
C18_LeaderboardOnceAtCompletion ==
  /\ [][ IF status # "completed" /\ status' = "completed"
         THEN winner' # Null /\ lbLog' = Append(lbLog, winner')
         ELSE lbLog' = lbLog ]_vars
  /\ [] ( Len(lbLog) = IF status = "completed" THEN 1 ELSE 0 )

C18_Witness ==
  /\ status = "completed"
  /\ lbLog = << winner >>
  /\ mode = "timed"
  /\ Connected(players) = {}
  /\ pc = "loop"
  /\ log = "move_rejected"
  /\ now - turnStartTimestamp[1] > TIMEOUT_MS

\* C19: the step that completes a match with a player as winner adds 1 to
\* the winner's wins and 1 to the losses of a player other than the winner,
\* and nothing else in the two leaderboards changes; no other step of the
\* match writes to them.
C19_WinAndLossCountedOnce ==
  [][ IF status # "completed" /\ status' = "completed" /\ winner' # "draw"
      THEN /\ wins' = [ wins EXCEPT ![winner'] = @ + 1 ]
           /\ \E loser \in IdSet(players') \ { winner' } :
                losses' = [ losses EXCEPT ![loser] = @ + 1 ]
      ELSE UNCHANGED << wins, losses >> ]_vars

\* C20: the step that completes a match as a draw leaves every player of
\* the match with currentWinStreak 0 and the bestWinStreak stored before (0
\* without a record), and writes no win and no loss.
C20_DrawResetsStreaks ==
  [][ status # "completed" /\ status' = "completed" /\ winner' = "draw" =>
        /\ \A u \in IdSet(players') :
             /\ streaks'[u] # NoRecord
             /\ streaks'[u][1].currentWinStreak = 0
             /\ streaks'[u][1].bestWinStreak =
                  IF streaks[u] = NoRecord THEN 0
                  ELSE streaks[u][1].bestWinStreak
        /\ UNCHANGED << wins, losses >> ]_vars

\* C21: a record updateWinStreaks has just written has
\* bestWinStreak >= currentWinStreak >= 0, whatever the result and whatever
\* record was stored before, one with currentWinStreak above bestWinStreak
\* included.
C21_WrittenStreakOrdered ==
  [][ \A u \in GameUsers, result \in StreakResults,
         fail \in StreakFailures :
        \/ "storageWrite" \in fail
        \/ /\ streaks'[u] # NoRecord
           /\ streaks'[u][1].currentWinStreak >= 0
           /\ streaks'[u][1].bestWinStreak >= streaks'[u][1].currentWinStreak
        \/ ~StreakCall(u, result, fail) ]_vars

C21_Witness ==
  /\ log = "streak_saved"
  /\ \E u \in GameUsers :
       /\ streaks[u] = Record(MaxStreak, MaxStreak)
       /\ \A v \in GameUsers \ { u } :
            /\ streaks[v] # NoRecord
            /\ streaks[v][1].currentWinStreak > streaks[v][1].bestWinStreak

Max(a, b) == IF a >= b THEN a ELSE b

\* the record a call finds: 0/0 when none is stored
PriorStreak(st, u) ==
  IF st[u] = NoRecord
  THEN [ currentWinStreak |-> 0, bestWinStreak |-> 0 ]
  ELSE st[u][1]

\* C22: a call of updateWinStreaks whose storage calls succeed stores, for a
\* win, the prior currentWinStreak plus 1 and the larger of the prior
\* bestWinStreak and that new value, and for a loss or a draw 0 and the prior
\* bestWinStreak; a missing record counts as 0/0; no other record changes.
C22_StreakUpdateRule ==
  [][ \A u \in GameUsers, result \in StreakResults :
        \/ LET prior == PriorStreak(streaks, u)
               cur == IF result = "win" THEN prior.currentWinStreak + 1
                      ELSE 0
               best == IF result = "win"
                       THEN Max(prior.bestWinStreak, cur)
                       ELSE prior.bestWinStreak
           IN streaks' = [ streaks EXCEPT ![u] = Record(cur, best) ]
        \/ ~StreakCall(u, result, {}) ]_vars

C22_Witness ==
  /\ log = "streak_saved"
  /\ \E u \in GameUsers :
       /\ streaks[u] = Record(0, MaxStreak)
       /\ \E v \in GameUsers \ { u } : streaks[v] = Record(1, 1)

\* C23: whichever ledger calls fail, the step that decides the match leaves
\* it completed with the decided winner (the mover of a winning move, a
\* connected player after a leave), broadcasts that final state and has
\* called updateLeaderboard; a winning move is still logged as applied and
\* the message loop goes on; the outcome is never taken back afterwards.
C23_LedgerFailureSwallowed ==
  /\ [][ status # "completed" /\ status' = "completed" =>
           /\ winner' \in { "draw" } \cup IdSet(players)
           /\ board' # board =>
                /\ winner' \in { "draw", lastMover' }
                /\ log' = "move_applied"
                /\ pc' = "loop"
           /\ board' = board => winner' \in Connected(players)
           /\ out' = << StateUpdate(GameState') >>
           /\ lbLog' = Append(lbLog, winner') ]_vars
  /\ [][ status = "completed" =>
           status' = "completed" /\ winner' = winner ]_vars

C23_Witness ==
  /\ status = "completed"
  /\ winner \in GameUsers
  /\ HasTriple(board, Player(players, winner).symbol)
  /\ wins[winner] = 0
  /\ \E u \in GameUsers : losses[u] = 1
  /\ pc = "loop"
  /\ log = "move_rejected"

\* C24: turnStartTimestamp is set only in a timed match that is active; it
\* is null while the match waits and null once it is completed.
C24_TimerOnlyWhileActive ==
  turnStartTimestamp # NoTimestamp => mode = "timed" /\ status = "active"

\* C25: currentTurn is set only while the match is active; it is null while
\* the match waits and null once it is completed.
C25_TurnOnlyWhileActive ==
  currentTurn # Null => status = "active"

\* C26: in a timed match a step that changes currentTurn (the activation,
\* an applied move that passes the turn) sets turnStartTimestamp to the time
\* of the step, and a rejected move leaves turnStartTimestamp as it was.
C26_TimerRestartsWithTurn ==
  [][ mode = "timed" =>
        /\ currentTurn' # currentTurn =>
             turnStartTimestamp' = Timestamp(now)
        /\ log' = "move_rejected" =>
             turnStartTimestamp' = turnStartTimestamp ]_vars

C26_Witness ==
  /\ mode = "timed"
  /\ status = "active"
  /\ accepted = 2
  /\ turnStartTimestamp = Timestamp(ClockStep)
  /\ now = 2 * ClockStep
  /\ log = "move_rejected"

\* C27: the mode of a match never changes; a classic match has
\* turnStartTimestamp null in every state, no timeout check changes its status
\* or winner however late it runs, and only a step that writes the board or
\* changes players completes it.
C27_ClassicNeverTimesOut ==
  /\ [][ mode' = mode ]_vars
  /\ [] ( mode = "classic" => turnStartTimestamp = NoTimestamp )
  /\ [][ mode = "classic" =>
           /\ status = "active" /\ status' = "completed" =>
                board' # board \/ players' # players
           /\ \/ UNCHANGED << status, winner >>
              \/ ~matchLoopEnd(NoFailure) ]_vars

C27_Witness ==
  /\ mode = "classic"
  /\ status = "active"
  /\ now = MaxClockSteps * ClockStep
  /\ accepted = 1
  /\ pc = "loop"
  /\ log = "move_applied"

\* C28: the label is open exactly while status is waiting and always names
\* the mode of the match; the only step that changes the label is the one in
\* which status goes from waiting to active, which clears the open tag, and a
\* cleared tag is never set again.
C28_OpenWhileWaiting ==
  /\ [] ( /\ label.open = 1 <=> status = "waiting"
          /\ label.open \in { 0, 1 }
          /\ label.mode = mode )
  /\ [][ /\ label' # label =>
              /\ status = "waiting" /\ status' = "active"
              /\ label.open = 1 /\ label'.open = 0
         /\ status = "waiting" /\ status' = "active" => label'.open = 0
         /\ label.open = 0 => label'.open = 0 ]_vars

C28_Witness ==
  /\ status = "active"
  /\ label.open = 0
  /\ Len(players) = 2
  /\ accepted = 0
  /\ admitted # {}

\* C29: a match whose label is open has fewer than two players, so the next
\* join attempt on it is accepted.
C29_OpenMatchHasRoom ==
  label.open = 1 =>
    /\ Len(PlayerIds(players)) < 2
    /\ joinAttempt(GameState).accept

OpenOfMode(m) ==
  { id \in DOMAIN registry : registry[id].label = [ open |-> 1, mode |-> m ] }

Listing(c) == rpc[c].pc = "idle" /\ rpc'[c].pc = "create"
Creating(c) == rpc[c].pc = "create" /\ rpc'[c].pc = "idle" /\ log' = "created"
ReturningExisting == log' = "joining_existing" /\ out' # << >>

\* C30 as stated: find_match returns an open match of the requested mode
\* whenever the registry has one, and creates a match of the requested mode
\* only while the registry has no open match of that mode.
C30_FindMatchNeverDuplicates ==
  [][ /\ ReturningExisting =>
           /\ out'[1].matchId \in OpenOfMode(out'[1].mode)
           /\ registry' = registry
      /\ \A c \in Callers :
           Creating(c) =>
             /\ OpenOfMode(rpc[c].mode) = {}
             /\ registry'[Len(registry')].label =
                  [ open |-> 1, mode |-> rpc[c].mode ] ]_vars

\* C30 as the code has it: find_match returns a match of its own listing (open,
\* of the requested mode, at most one joined presence) whenever the listing is
\* not empty, and goes on to create only when the listing is empty; the match
\* it then creates is a new open, waiting match of the requested mode, and the
\* other matches are left as they are.  It never returns a match of the other
\* mode.
C30_FindMatchFollowsListing ==
  [][ /\ ReturningExisting =>
           LET r == out'[1]
           IN /\ r.matchId \in DOMAIN registry
              /\ registry[r.matchId].label = [ open |-> 1, mode |-> r.mode ]
              /\ registry[r.matchId].state.mode = r.mode
              /\ matchSize(registry[r.matchId]) <= 1
              /\ ~r.created
              /\ registry' = registry
              /\ rpc' = rpc
      /\ \A c \in Callers :
           /\ Listing(c) =>
                /\ { id \in OpenOfMode(rpc'[c].mode) :
                       matchSize(registry[id]) <= 1 } = {}
                /\ registry' = registry
           /\ Creating(c) =>
                LET r == out'[1]
                IN /\ r = Response(c, rpc[c].mode, Len(registry) + 1, TRUE)
                   /\ Len(registry') = Len(registry) + 1
                   /\ \A id \in DOMAIN registry : registry'[id] = registry[id]
                   /\ registry'[r.matchId].label =
                        [ open |-> 1, mode |-> r.mode ]
                   /\ registry'[r.matchId].state.mode = r.mode
                   /\ registry'[r.matchId].state.status = "waiting"
                   /\ registry'[r.matchId].state.players = << >>
           /\ \A v \in PayloadModes :
                LET m == requestedMode(v)
                IN \/ m \notin GameMode
                   \/ { id \in OpenOfMode(m) :
                          matchSize(registry[id]) <= 1 } = {}
                   \/ ReturningExisting /\ out'[1].mode = m
                   \/ ~rpcFindMatch(c, v, FALSE) ]_vars

\* find_match("timed") has returned the open timed match 2 that holds one
\* player, while the classic match 1 is open as well
C30_Witness ==
  /\ log = "joining_existing"
  /\ out = << Response("c2", "timed", 2, FALSE) >>
  /\ Len(registry) = 2
  /\ registry[1].label = [ open |-> 1, mode |-> "classic" ]
  /\ registry[2].label = [ open |-> 1, mode |-> "timed" ]
  /\ Len(registry[2].state.players) = 1

OfMode(m) == { id \in DOMAIN registry : registry[id].state.mode = m }
FirstOfMode(m) == CHOOSE id \in OfMode(m) : \A other \in OfMode(m) : id <= other
HasRoom(id) == Len(PlayerIds(registry[id].state.players)) < 2

Thrown(c, message) ==
  /\ out' = << ErrorResponse(c, message) >>
  /\ registry' = registry
  /\ rpc'[c] = NoCall

MoveApplied == log' = "move_applied" /\ accepted' = accepted + 1

\* C33: the messages of a tick are applied one after another, each against
\* the state the previous one left: an applied move fills exactly one cell
\* that was empty and no filled cell is written again, so of two messages for
\* one empty cell at most one is applied; the sender of an applied move held
\* the turn and is not the sender of the applied move before it; a rejected
\* message changes nothing; and between two messages of a tick nothing but an
\* applied move changes status or winner (the timeout check does not run).
C33_BatchAppliedInOrder ==
  [][ /\ MoveApplied =>
           /\ \E c \in Cells :
                /\ board[c] = Null /\ board'[c] # Null
                /\ \A d \in Cells \ { c } : board'[d] = board[d]
           /\ lastMover' = currentTurn
           /\ lastMover' # lastMover
           /\ pc' = "loop"
      /\ \A c \in Cells : board[c] # Null => board'[c] = board[c]
      /\ log' = "move_rejected" => UNCHANGED gsVars
      /\ pc' = "loop" /\ ~MoveApplied => UNCHANGED << status, winner >> ]_vars

\* a tick of a timed match that began with the turn run out: two moves were
\* applied in it (the turn is back with the same player and the timer was
\* restarted at the time of the tick), and a third message was rejected
C33_Witness ==
  /\ mode = "timed"
  /\ status = "active"
  /\ pc = "loop"
  /\ tickTurn # Null
  /\ currentTurn = tickTurn
  /\ turnStartTimestamp = Timestamp(now)
  /\ log = "move_rejected"

Ignored == { "message_error", "unknown_opcode" }

\* C34: a message with an undecodable payload or an unknown operation code
\* changes neither the match state nor the ledgers and broadcasts nothing;
\* the tick goes on after it: a valid move that follows it is applied, and
\* the timeout check that closes the tick completes a match whose turn has
\* run out.
C34_MalformedMessageIgnored ==
  [][ /\ log' \in Ignored =>
           /\ UNCHANGED << gsVars, ledgerVars, label >>
           /\ out' = << >>
           /\ pc' = "loop"
      /\ log \in Ignored =>
           /\ pc = "loop"
           /\ \A m \in MoveMessages(GameUsers, Positions(LobbyCells)) :
                \/ validateMove(GameState, m.sender, m.position) # "ok"
                \/ log' = "move_applied" /\ board'[m.position] # Null
                \/ ~matchLoopMessage(m, NoFailure)
           /\ \/ TurnRunOut(GameState, now) = Null
              \/ status' = "completed" /\ winner' # currentTurn
              \/ pc' # "idle" ]_vars

\* an undecodable message was ignored in a tick of a timed match that began
\* with the turn run out and in which a move had been applied before it
C34_Witness ==
  /\ mode = "timed"
  /\ status = "active"
  /\ pc = "loop"
  /\ log = "message_error"
  /\ tickTurn # Null
  /\ turnStartTimestamp = Timestamp(now)

Deleted(userId) ==
  /\ wins[userId] = 0
  /\ losses[userId] = 0
  /\ streaks[userId] = NoRecord
  /\ userId \notin accounts

\* C35 as stated: delete_user_data reports success when the deletion of the
\* win record, the loss record or the streak record fails, and reports a
\* failure when the account itself cannot be deleted.
C35_AccountFailureReported ==
  [][ \A userId \in GameUsers, fail \in SUBSET DeleteOps :
        \/ out' = << DeleteResponse(userId, "accountDelete" \notin fail) >>
        \/ ~rpcDeleteUserData(userId, fail) ]_vars

\* C35 as the code has it: delete_user_data reports success whichever of the
\* four deletions fail, the account's included, and reports a failure only
\* when the caller has no user id; a call in which nothing fails leaves the
\* caller without win record, loss record, streak record and account; a call
\* made when all four are gone reports success and changes no store; no call
\* touches another user's data.
C35_DeleteReportsSuccess ==
  [][ /\ \A userId \in GameUsers, fail \in SUBSET DeleteOps :
           \/ /\ out' = << DeleteResponse(userId, TRUE) >>
              /\ fail = {} => Deleted(userId)'
              /\ Deleted(userId) =>
                   UNCHANGED << wins, losses, streaks, accounts >>
              /\ \A other \in Users \ { userId } :
                   /\ wins'[other] = wins[other]
                   /\ losses'[other] = losses[other]
                   /\ streaks'[other] = streaks[other]
                   /\ other \in accounts' <=> other \in accounts
           \/ ~rpcDeleteUserData(userId, fail)
      /\ \A fail \in SUBSET DeleteOps :
           \/ /\ out' = << DeleteResponse(Null, FALSE) >>
              /\ UNCHANGED << wins, losses, streaks, accounts >>
           \/ ~rpcDeleteUserData(Null, fail) ]_vars

\* u1 was told that the deletion succeeded although the account and the win
\* record are still there
C35_Witness ==
  /\ log = "delete_done"
  /\ out = << DeleteResponse("u1", TRUE) >>
  /\ "u1" \in accounts
  /\ wins["u1"] = 1
  /\ streaks["u1"] = NoRecord

Ranked == { i \in LbPlayers : wins[i] > 0 \/ losses[i] > 0 }
Smaller(a, b) == IF a < b THEN a ELSE b

\* C36: a get_leaderboard call in which no read fails returns one row per
\* player with a win record or a loss record, at most TopRows rows, each with
\* the stored wins and losses and the stored streak record (0/0 if none), by
\* wins descending, the rows left out having no more wins than the rows
\* returned; the call writes to no ledger.
C36_LeaderboardRows ==
  [][ log' = "leaderboard" =>
        LET rows == out'[1].leaderboard
        IN /\ Len(rows) = Smaller(TopRows, Cardinality(Ranked))
           /\ \A j, k \in DOMAIN rows :
                /\ j # k => rows[j].userId # rows[k].userId
                /\ j < k => rows[j].wins >= rows[k].wins
           /\ \A k \in DOMAIN rows :
                LET i == rows[k].userId
                IN /\ i \in Ranked
                   /\ rows[k].wins = wins[i]
                   /\ rows[k].losses = losses[i]
                   /\ IF streaks[i] = NoRecord
                      THEN rows[k].winStreak = 0 /\ rows[k].bestWinStreak = 0
                      ELSE /\ rows[k].winStreak =
                                streaks[i][1].currentWinStreak
                           /\ rows[k].bestWinStreak =
                                streaks[i][1].bestWinStreak
                   /\ \A other \in Ranked \ { rows[j].userId : j \in DOMAIN rows } :
                        wins[other] <= rows[k].wins
           /\ UNCHANGED ledgerVars ]_vars

C38_TimedMatchCompletes ==
  /\ (mode = "timed" /\ status = "active") ~> (status = "completed")
  /\ [][ \/ ~ (mode = "classic" /\ status = "active")
         \/ UNCHANGED gsVars
         \/ ~ (matchLoopEnd(NoFailure) \/ AdvanceClock) ]_vars

\* C39: no change of the match state is left un-broadcast.  Every step of a
\* handler that changes board, currentTurn, status, winner, players or
\* turnStartTimestamp broadcasts one state update, and every state update
\* that is broadcast carries the state as it is after the step; so the last
\* snapshot the clients received equals the match state.
C39_EveryChangeBroadcast ==
  [][ /\ << board, currentTurn, status, winner, players,
            turnStartTimestamp >>' #
         << board, currentTurn, status, winner, players, turnStartTimestamp >>
           => out' = << StateUpdate(GameState') >>
      /\ \A k \in DOMAIN out' :
           out'[k].opCode = "STATE_UPDATE" => out'[k].data = GameState' ]_vars

\* the tick's timeout check has just completed a timed match in which both
\* players are connected, and the completed state was broadcast
C39_Witness ==
  /\ mode = "timed"
  /\ status = "completed"
  /\ winner \in IdSet(players) \ { currentTurn }
  /\ Connected(players) = IdSet(players)
  /\ pc = "idle"
  /\ log = "none"
  /\ out = << StateUpdate(GameState) >>

\* C40: no call of updateWinStreaks, whatever its result and whether or not
\* its storage read or its storage write fails, lowers a stored
\* bestWinStreak or removes a stored record.
C40_BestNeverDecreases ==
  [][ \A u \in GameUsers :
        streaks[u] # NoRecord =>
          /\ streaks'[u] # NoRecord
          /\ streaks'[u][1].bestWinStreak >= streaks[u][1].bestWinStreak ]_vars

====
